---- MODULE Spec2Model ----
(***************************************************************************)
(* SlidePlay rhythm game (Architecture/Code/MusicCo): the note timeline,   *)
(* the press/release judge of SlidePlayGame.process_key_event, the miss    *)
(* sweep of update_missed_notes and the session loop of SlidePlayGame.run. *)
(*                                                                         *)
(* Time is counted in ticks of 1/TicksPerSecond second. Positions are      *)
(* pixels, computed as the code computes them (int() truncates toward 0).  *)
(* appear_time is kept multiplied by NOTE_SPEED so that it is an integer.  *)
(* beat_accuracy, beat_accuracy_total are kept in units of 1/AccDen        *)
(* percent, so that the quotient press_duration / expected_duration is     *)
(* exact for every duration the tracks use.                                *)
(*                                                                         *)
(* Sound (play_note, play_error_sound, calculate_pan) and drawing are      *)
(* outputs. The attributes that only the drawing code reads                *)
(* (last_key_pressed, active_note_info, the notes' 'demo_played' key) are  *)
(* outputs as well and are not part of the state.                          *)
(*                                                                         *)
(* Start-up (learn.py main, Co.py MusicConnection.load_track) is a second  *)
(* machine, StartupSpec, over the text of the track file: a string is the  *)
(* sequence of its characters, parsed by parse_music_data and written back *)
(* by save_composition as the code does it. The game machine, Spec, begins *)
(* where main has built SlidePlayGame from a parsed track.                 *)
(*                                                                         *)
(* The LAN mode of Co.py (MusicConnection) is two more machines over the   *)
(* threads of the program. LanSpec: a connected master and slave, each     *)
(* with its UI thread, its message thread and the playback threads that    *)
(* start_playback creates, one step per read or write of a shared          *)
(* attribute; every message is received by itself and in sending order.    *)
(* ScanSpec: the master's slave discovery, with the UI thread, the         *)
(* discovery threads and the server_listen thread of a connection attempt. *)
(* Threads interleave freely: a time.sleep orders nothing.                 *)
(***************************************************************************)
EXTENDS Integers, Sequences, FiniteSets, TLC

\* ---------------------------------------------------------------- bounds
TicksPerSecond == 4
MaxDt == 1
MaxWrong == 1

\* ------------------------------------------------------------- constants
WIDTH == 1600
NOTE_SPEED == 150
THRESHOLD_X == 200
threshold_distance == 40
PIANO == 0
ELECTRO_GUITAR == 1
GraceSeconds == 2
PreviewTailSeconds == 1

NoteNames == <<"Do", "Re", "Mi", "Fa", "Sol", "La", "Si">>

\* Python int(a / b) for b > 0: truncation toward zero.
Trunc(a, b) == IF a >= 0 THEN a \div b ELSE -((-a) \div b)

Abs(x) == IF x < 0 THEN -x ELSE x

Put(f, k, v) == [x \in (DOMAIN f) \cup {k} |-> IF x = k THEN v ELSE f[x]]

Del_forgotten(f, k) == f

Del(f, k) == [x \in (DOMAIN f) \ {k} |-> f[x]]

EmptyMap == [x \in {} |-> 0]

\* ---------------------------------------------------------------- tracks
\* What parse_music_data returns for one token (times in ticks).
ParsedNote(name, start, dur, instrument) ==
    [Note |-> name, Octave |-> 4, Start |-> start, Duration |-> dur,
     Volume |-> 100, Instrument |-> instrument]

\* The tracks the game is started with: two notes one after the other, two
\* notes of different instruments out of start-time order with overlapping
\* hit windows, and two notes of one pitch class starting together.
Tracks ==
    { <<ParsedNote("Do", 0, 2, PIANO), ParsedNote("Re", 3, 2, PIANO)>>,
      <<ParsedNote("Re", 2, 1, ELECTRO_GUITAR), ParsedNote("Do", 1, 2, PIANO)>>,
      <<ParsedNote("Do", 1, 1, PIANO), ParsedNote("Do", 1, 2, PIANO)>> }

\* The mapped keys K_1..K_7, kept to those whose pitch class some track
\* uses; a key of any other pitch class is a wrong key wherever one of
\* these is.
Keys ==
    {k \in 1..Len(NoteNames) :
        \E t \in Tracks : \E i \in 1..Len(t) : t[i].Note = NoteNames[k]}

KEY_MAPPINGS == [k \in Keys |-> NoteNames[k]]

Durations == {t[i].Duration : t \in Tracks, i \in 1..2}

RECURSIVE Product(_)
Product(S) ==
    IF S = {} THEN 1
    ELSE LET x == CHOOSE x \in S : TRUE IN x * Product(S \ {x})

\* Denominator in which accuracies are kept: every duration divides it.
AccDen == Product(Durations)

\* ------------------------------------------------------------ track files
\* A Python str is the sequence of its characters. A float is kept as the
\* pair <<m, d>> standing for m / 10^d with no trailing zero in m when
\* d > 0, so that equal pairs are equal numbers.
DigitChars == <<"0", "1", "2", "3", "4", "5", "6", "7", "8", "9">>

isdigit(c) == \E n \in 1..Len(DigitChars) : DigitChars[n] = c

DigitVal(c) == (CHOOSE n \in 1..Len(DigitChars) : DigitChars[n] = c) - 1

RECURSIVE Pow10(_)
Pow10(d) == IF d = 0 THEN 1 ELSE 10 * Pow10(d - 1)

\* str.split(sep): every separator splits, empty fields are kept.
split_on(s, sep) ==
    LET at == {i \in 1..Len(s) : s[i] = sep}
        \* position of the k-th separator; 0 and Len(s) + 1 bound the string
        cut(k) == IF k = 0 THEN 0
                  ELSE IF k = Cardinality(at) + 1 THEN Len(s) + 1
                  ELSE CHOOSE i \in at :
                          Cardinality({m \in at : m < i}) = k - 1
    IN [k \in 1..(Cardinality(at) + 1) |->
          SubSeq(s, cut(k - 1) + 1, cut(k) - 1)]

\* str.split(): runs of whitespace separate, no empty string is returned.
split_whitespace(s) ==
    LET nonempty(w) == w # <<>>
    IN SelectSeq(split_on(s, " "), nonempty)

\* The strings int() accepts among those made of letters, digits, '.' and
\* 'x': the non-empty digit strings. Any other raises ValueError.
int_ok(s) == s # <<>> /\ \A i \in 1..Len(s) : isdigit(s[i])

RECURSIVE int_value(_)
int_value(s) ==
    IF s = <<>> THEN 0
    ELSE 10 * int_value(SubSeq(s, 1, Len(s) - 1)) + DigitVal(s[Len(s)])

RECURSIVE Normalize(_)
Normalize(f) ==
    IF f[2] > 0 /\ f[1] % 10 = 0
    THEN Normalize(<<f[1] \div 10, f[2] - 1>>)
    ELSE f

\* The strings float() accepts among those made of letters, digits, '.'
\* and 'x' without an exponent: digits with at most one point and at least
\* one digit.
float_ok(s) ==
    LET p == split_on(s, ".")
    IN /\ Len(p) \in {1, 2}
       /\ \A i \in 1..Len(p) : \A j \in 1..Len(p[i]) : isdigit(p[i][j])
       /\ \E i \in 1..Len(p) : p[i] # <<>>

float_value(s) ==
    LET p == split_on(s, ".")
        frac == IF Len(p) = 2 THEN p[2] ELSE <<>>
    IN Normalize(<<int_value(p[1] \o frac), Len(frac)>>)

\* a < b for floats.
float_less(a, b) == a[1] * Pow10(b[2]) < b[1] * Pow10(a[2])

nondigits_of(s) == LET keep(c) == ~isdigit(c) IN SelectSeq(s, keep)

digits_of(s) == SelectSeq(s, isdigit)

\* The field counts parse_music_data accepts.
accepted_field_count(n) == n \in {4, 5}

\* The loop body of parse_music_data for one entry, from the lists built
\* so far: the entry is skipped with a warning, or a conversion raises
\* ValueError, or a note is appended.
parse_entry(entry, acc) ==
    LET parts == split_on(entry, "-")
    IN IF ~accepted_field_count(Len(parts))
       THEN [acc EXCEPT !.warnings = Append(@, entry)]
       ELSE LET note_octave == parts[1]
                start_time == parts[2]
                duration == parts[3]
                volume == parts[4]
                note == nondigits_of(note_octave)
                octave == digits_of(note_octave)
                converts ==
                    /\ Len(parts) = 5 => int_ok(parts[5])
                    /\ int_ok(octave)
                    /\ float_ok(start_time)
                    /\ float_ok(duration)
                    /\ int_ok(volume)
            IN IF ~converts
               THEN [acc EXCEPT !.raised = TRUE]
               ELSE [acc EXCEPT !.parsed_data =
                        Append(@,
                          [Note |-> note,
                           Octave |-> int_value(octave),
                           Start |-> float_value(start_time),
                           Duration |-> float_value(duration),
                           Volume |-> int_value(volume),
                           Instrument |->
                               IF Len(parts) = 4 THEN PIANO
                               ELSE int_value(parts[5])])]

RECURSIVE parse_entries(_, _)
parse_entries(entries, acc) ==
    IF entries = <<>> \/ acc.raised THEN acc
    ELSE parse_entries(Tail(entries), parse_entry(Head(entries), acc))

\* parse_music_data: raised is set when the call ends with an exception,
\* parsed_data is the list returned otherwise, warnings the entries printed
\* as skipped.
parse_music_data(input_data) ==
    parse_entries(split_whitespace(input_data),
                  [raised |-> FALSE, parsed_data |-> <<>>, warnings |-> <<>>])

RECURSIVE format_int(_)
\* str(n) for an int n >= 0.
format_int(n) ==
    IF n < 10 THEN <<DigitChars[n + 1]>>
    ELSE format_int(n \div 10) \o <<DigitChars[(n % 10) + 1]>>

RECURSIVE zero_padded(_, _)
zero_padded(s, width) ==
    IF Len(s) >= width THEN s ELSE zero_padded(<<"0">> \o s, width)

\* str(x) for a float x >= 0 written without exponent: the integer part, a
\* point, and the fractional digits, "0" when there is none.
format_float(f) ==
    format_int(f[1] \div Pow10(f[2])) \o <<".">>
      \o (IF f[2] = 0 THEN <<"0">>
          ELSE zero_padded(format_int(f[1] % Pow10(f[2])), f[2]))

RECURSIVE join(_, _)
\* sep.join(strings)
join(strings, sep) ==
    IF strings = <<>> THEN <<>>
    ELSE IF Len(strings) = 1 THEN strings[1]
    ELSE strings[1] \o sep \o join(Tail(strings), sep)

sorted_by_start_unstable(composition) ==
    LET before(j, i) ==
            \/ float_less(composition[j].Start, composition[i].Start)
            \/ composition[j].Start = composition[i].Start /\ j > i
        rank(i) == 1 + Cardinality({j \in 1..Len(composition) : before(j, i)})
    IN [r \in 1..Len(composition) |->
          composition[CHOOSE i \in 1..Len(composition) : rank(i) = r]]

\* sorted(composition, key=lambda x: x['Start Time']): stable.
sorted_by_start(composition) ==
    LET before(j, i) ==
            \/ float_less(composition[j].Start, composition[i].Start)
            \/ composition[j].Start = composition[i].Start /\ j < i
        rank(i) == 1 + Cardinality({j \in 1..Len(composition) : before(j, i)})
    IN [r \in 1..Len(composition) |->
          composition[CHOOSE i \in 1..Len(composition) : rank(i) = r]]

\* The token save_composition writes for one note.
note_str(note) ==
    join(<<note.Note \o format_int(note.Octave),
           format_float(note.Start),
           format_float(note.Duration),
           format_int(note.Volume),
           format_int(note.Instrument)>>, <<"-">>)

\* The text save_composition writes for a non-empty composition.
save_composition(composition) ==
    LET sorted == sorted_by_start(composition)
    IN join([i \in 1..Len(sorted) |-> note_str(sorted[i])], <<" ">>)

\* -------------------------------------------------------- start-up inputs
\* The tokens the track files are made of, each with what the format of the
\* track file says about it: whether it is well formed, and the note a
\* well-formed token stands for (instrument PIANO when it names none).
TokenTable ==
    <<
      \* Do4-0-2-100-0
      [text |-> <<"D", "o", "4", "-", "0", "-", "2", "-", "1", "0", "0", "-", "0">>,
       fields |-> 5, well_formed |-> TRUE,
       note |-> [Note |-> <<"D", "o">>, Octave |-> 4, Start |-> <<0, 0>>,
                Duration |-> <<2, 0>>, Volume |-> 100, Instrument |-> PIANO]],
      \* Re4-0.5-1.5-90
      [text |-> <<"R", "e", "4", "-", "0", ".", "5", "-", "1", ".", "5", "-", "9", "0">>,
       fields |-> 4, well_formed |-> TRUE,
       note |-> [Note |-> <<"R", "e">>, Octave |-> 4, Start |-> <<5, 1>>,
                Duration |-> <<15, 1>>, Volume |-> 90, Instrument |-> PIANO]],
      \* Mi5-1-1-80-1
      [text |-> <<"M", "i", "5", "-", "1", "-", "1", "-", "8", "0", "-", "1">>,
       fields |-> 5, well_formed |-> TRUE,
       note |-> [Note |-> <<"M", "i">>, Octave |-> 5, Start |-> <<1, 0>>,
                Duration |-> <<1, 0>>, Volume |-> 80, Instrument |-> ELECTRO_GUITAR]],
      \* Sol4-1-0.25-100
      [text |-> <<"S", "o", "l", "4", "-", "1", "-", "0", ".", "2", "5", "-", "1", "0", "0">>,
       fields |-> 4, well_formed |-> TRUE,
       note |-> [Note |-> <<"S", "o", "l">>, Octave |-> 4, Start |-> <<1, 0>>,
                Duration |-> <<25, 2>>, Volume |-> 100, Instrument |-> PIANO]],
      \* Re4-3-2
      [text |-> <<"R", "e", "4", "-", "3", "-", "2">>,
       fields |-> 3, well_formed |-> FALSE,
       note |-> [Note |-> <<>>, Octave |-> 0, Start |-> <<0, 0>>,
                Duration |-> <<0, 0>>, Volume |-> 0, Instrument |-> PIANO]],
      \* Fa4-1-1-80-1-9
      [text |-> <<"F", "a", "4", "-", "1", "-", "1", "-", "8", "0", "-", "1", "-", "9">>,
       fields |-> 6, well_formed |-> FALSE,
       note |-> [Note |-> <<>>, Octave |-> 0, Start |-> <<0, 0>>,
                Duration |-> <<0, 0>>, Volume |-> 0, Instrument |-> PIANO]],
      \* Do-0-2-100
      [text |-> <<"D", "o", "-", "0", "-", "2", "-", "1", "0", "0">>,
       fields |-> 4, well_formed |-> FALSE,
       note |-> [Note |-> <<>>, Octave |-> 0, Start |-> <<0, 0>>,
                Duration |-> <<0, 0>>, Volume |-> 0, Instrument |-> PIANO]],
      \* Re4-x-2-100-0
      [text |-> <<"R", "e", "4", "-", "x", "-", "2", "-", "1", "0", "0", "-", "0">>,
       fields |-> 5, well_formed |-> FALSE,
       note |-> [Note |-> <<>>, Octave |-> 0, Start |-> <<0, 0>>,
                Duration |-> <<0, 0>>, Volume |-> 0, Instrument |-> PIANO]]
    >>

\* Longest track file, in tokens.
MaxTokens == 3

\* The token choices of the track files: every sequence of at most
\* MaxTokens table rows.
TokenLists == UNION {[1..n -> 1..Len(TokenTable)] : n \in 0..MaxTokens}

\* The text of the file made of the listed tokens, one space between them.
FileText(tokens) ==
    join([i \in 1..Len(tokens) |-> TokenTable[tokens[i]].text], <<" ">>)

\* Co.py FALLBACK_TRACK, token by token.
FALLBACK_TRACK ==
    join(<<
        \* Do4-0.0-0.5-100-0
        <<"D", "o", "4", "-", "0", ".", "0", "-", "0", ".", "5", "-", "1", "0", "0", "-", "0">>,
        \* Do4-0.5-0.5-100-0
        <<"D", "o", "4", "-", "0", ".", "5", "-", "0", ".", "5", "-", "1", "0", "0", "-", "0">>,
        \* Sol4-1.0-0.5-100-0
        <<"S", "o", "l", "4", "-", "1", ".", "0", "-", "0", ".", "5", "-", "1", "0", "0", "-", "0">>,
        \* Sol4-1.5-0.5-100-0
        <<"S", "o", "l", "4", "-", "1", ".", "5", "-", "0", ".", "5", "-", "1", "0", "0", "-", "0">>,
        \* La4-2.0-0.5-100-0
        <<"L", "a", "4", "-", "2", ".", "0", "-", "0", ".", "5", "-", "1", "0", "0", "-", "0">>,
        \* La4-2.5-0.5-100-0
        <<"L", "a", "4", "-", "2", ".", "5", "-", "0", ".", "5", "-", "1", "0", "0", "-", "0">>,
        \* Sol4-3.0-1.0-100-0
        <<"S", "o", "l", "4", "-", "3", ".", "0", "-", "1", ".", "0", "-", "1", "0", "0", "-", "0">>,
        \* Fa4-4.0-0.5-100-1
        <<"F", "a", "4", "-", "4", ".", "0", "-", "0", ".", "5", "-", "1", "0", "0", "-", "1">>,
        \* Fa4-4.5-0.5-100-1
        <<"F", "a", "4", "-", "4", ".", "5", "-", "0", ".", "5", "-", "1", "0", "0", "-", "1">>,
        \* Mi4-5.0-0.5-100-1
        <<"M", "i", "4", "-", "5", ".", "0", "-", "0", ".", "5", "-", "1", "0", "0", "-", "1">>,
        \* Mi4-5.5-0.5-100-1
        <<"M", "i", "4", "-", "5", ".", "5", "-", "0", ".", "5", "-", "1", "0", "0", "-", "1">>,
        \* Re4-6.0-0.5-100-1
        <<"R", "e", "4", "-", "6", ".", "0", "-", "0", ".", "5", "-", "1", "0", "0", "-", "1">>,
        \* Re4-6.5-0.5-100-1
        <<"R", "e", "4", "-", "6", ".", "5", "-", "0", ".", "5", "-", "1", "0", "0", "-", "1">>,
        \* Do4-7.0-1.0-100-1
        <<"D", "o", "4", "-", "7", ".", "0", "-", "1", ".", "0", "-", "1", "0", "0", "-", "1">>
    >>, <<" ">>)

\* ------------------------------------------------------------- visualizer
prepare_song_data(song_data) ==
    [i \in 1..Len(song_data) |->
        [Note |-> song_data[i].Note,
         Octave |-> song_data[i].Octave,
         Start |-> song_data[i].Start,
         Duration |-> song_data[i].Duration,
         Volume |-> song_data[i].Volume,
         Instrument |-> song_data[i].Instrument,
         appear_time |-> song_data[i].Start * NOTE_SPEED
                           - (WIDTH - THRESHOLD_X) * TicksPerSecond,
         played |-> FALSE,
         missed |-> FALSE,
         wrong |-> FALSE,
         expected_duration |-> song_data[i].Duration,
         actual_duration |-> 0,
         beat_accuracy |-> 0]]

\* x_pos = WIDTH - int(elapsed_since_appear * NOTE_SPEED)
x_pos(note, t) ==
    WIDTH - Trunc(t * NOTE_SPEED - note.appear_time, TicksPerSecond)

\* note_width = int(note['Duration'] * NOTE_SPEED)
note_width(note) == Trunc(note.Duration * NOTE_SPEED, TicksPerSecond)

Handled_without_wrong(note) == note.played \/ note.missed

\* note['played'] or note['missed'] or note.get('wrong', False)
Handled(note) == note.played \/ note.missed \/ note.wrong

\* Indices of the notes with current_time >= appear_time.
get_visible_notes(song, t) ==
    {i \in 1..Len(song) : t * NOTE_SPEED >= song[i].appear_time}

MissCondition_position_only(note, t) ==
    x_pos(note, t) + note_width(note) < THRESHOLD_X - threshold_distance

MissCondition_ignoring_missed(note, t) ==
    /\ ~note.played /\ ~note.wrong
    /\ x_pos(note, t) + note_width(note) < THRESHOLD_X - threshold_distance

MissCondition_ignoring_width(note, t) ==
    /\ ~note.played /\ ~note.missed /\ ~note.wrong
    /\ x_pos(note, t) < THRESHOLD_X - threshold_distance \div 2

\* The test under which update_missed_notes marks a note.
MissCondition(note, t) ==
    /\ ~note.played /\ ~note.missed /\ ~note.wrong
    /\ x_pos(note, t) + note_width(note) < THRESHOLD_X - threshold_distance

\* The notes after the sweep over the visible ones.
MissedSweep(song, visible, t) ==
    [i \in 1..Len(song) |->
        IF i \in visible /\ MissCondition(song[i], t)
        THEN [song[i] EXCEPT !.missed = TRUE]
        ELSE song[i]]

update_missed_notes_uncounted(song, visible, t, missed_notes_count) ==
    missed_notes_count

\* The count update_missed_notes returns.
update_missed_notes(song, visible, t, missed_notes_count) ==
    missed_notes_count
      + Cardinality({i \in visible : MissCondition(song[i], t)})

Indices(song) == [i \in 1..Len(song) |-> i]

IsActive_ignoring_flags(note, t) ==
    Abs(x_pos(note, t) - THRESHOLD_X) < threshold_distance

\* The test under which find_active_notes appends a note.
IsActive(note, t) ==
    /\ ~Handled(note)
    /\ Abs(x_pos(note, t) - THRESHOLD_X) < threshold_distance

find_active_notes_stale(song, t) ==
    LET near(i) == Abs(x_pos(song[i], t) - THRESHOLD_X) < threshold_distance
        idx == SelectSeq(Indices(song), near)
    IN [j \in 1..Len(idx) |->
          <<idx[j], Abs(x_pos(song[idx[j]], t) - THRESHOLD_X)>>]

\* Sequence of <<note index, distance>> in song_data order.
find_active_notes(song, t) ==
    LET near(i) == IsActive(song[i], t)
        idx == SelectSeq(Indices(song), near)
    IN [j \in 1..Len(idx) |->
          <<idx[j], Abs(x_pos(song[idx[j]], t) - THRESHOLD_X)>>]

\* ------------------------------------------------------------------ state
VARIABLES
    phase,               \* position of run(): which loop is executing
    current_time,        \* current_time of the running loop, in ticks
    song_data,           \* the note dicts, in track order
    score, correct_hits, missed_notes, wrong_notes,
    current_instrument, override_instruments,
    note_accuracy,       \* note name -> [correct, wrong]
    beat_accuracy_total, beat_accuracy_count,
    currently_playing,   \* key -> [start_time, note]
    key_to_note_map,     \* key -> index of the note dict it refers to
    last_played_index,   \* run_pre_play: index into sorted_notes, 0 = none
    cancelled,           \* history: the Live loop was left by ESC or QUIT
    bound_at,            \* history: key -> time of the press that bound it
    repressed,           \* history: keys pressed again while bound
    measured,            \* history: accuracies computed on releases
    startup,             \* main's position and locals before the game runs
    link,                \* Co.py: two connected instances and their threads
    scan                 \* Co.py: the master's slave discovery

vars == <<phase, current_time, song_data, score, correct_hits, missed_notes,
          wrong_notes, current_instrument, override_instruments,
          note_accuracy, beat_accuracy_total, beat_accuracy_count,
          currently_playing, key_to_note_map, last_played_index, cancelled,
          bound_at, repressed, measured, startup,
          link, scan>>

judge == <<score, correct_hits, missed_notes, wrong_notes, note_accuracy,
           beat_accuracy_total, beat_accuracy_count, currently_playing,
           key_to_note_map>>

hist == <<cancelled, bound_at, repressed, measured>>

instrument_state == <<current_instrument, override_instruments>>

co_vars == <<link, scan>>

\* The instances of MusicConnection on the two machines and their roles.
Inst == {"master", "slave"}

Peer(i) == IF i = "master" THEN "slave" ELSE "master"

selected_role(i) == IF i = "master" THEN 0 ELSE 1

LoopPcs == {"while", "set_local", "send_complete", "test_remote", "mark",
            "finally"}

\* Master and slave are connected (state CONNECTION_ACTIVE, one
\* handle_connection thread each) with the attributes __init__ gave them;
\* no thread is inside a handler and no message is in flight.
Connected ==
    [state |-> [i \in Inst |-> "CONNECTION_ACTIVE"],
     local_ready |-> [i \in Inst |-> FALSE],
     remote_ready |-> [i \in Inst |-> FALSE],
     playback_completed |-> [i \in Inst |-> FALSE],
     local_completed |-> [i \in Inst |-> FALSE],
     remote_completed |-> [i \in Inst |-> FALSE],
     playback_running |-> [i \in Inst |-> FALSE],
     ui |-> [i \in Inst |-> "idle"],
     msg |-> [i \in Inst |-> "idle"],
     loops |-> [i \in Inst |-> [pc \in LoopPcs |-> 0]],
     inbox |-> [i \in Inst |-> <<>>],
     timers |-> [i \in Inst |-> 0],
     presses |-> [i \in Inst |-> 0],
     started |-> [i \in Inst |-> 0]]

\* The master is in MASTER_MODE with a track loaded: no discovery thread,
\* no socket, no handler running.
MasterIdle ==
    [state |-> "MASTER_MODE",
     discovery_running |-> FALSE,
     sockets |-> 0,
     listen_socket |-> FALSE,
     open |-> {},
     scans |-> 0,
     threads |-> {},
     active_slaves |-> FALSE,
     connection_status |-> "Disconnected",
     ui |-> "idle",
     server |-> "none",
     closed_newer |-> FALSE]

\* The value of link and of scan while no MusicConnection is connected,
\* respectively scanning.
NotRunning == "not running"

CoIdle == link = NotRunning /\ scan = NotRunning

Notes == 1..Len(song_data)

max_score == Len(song_data)

last_note_time_of_first == song_data[1].Start + song_data[1].Duration

\* max([n['Start Time'] + n['Duration'] for n in song_data])
last_note_time ==
    CHOOSE m \in {song_data[i].Start + song_data[i].Duration : i \in Notes} :
        \A i \in Notes : song_data[i].Start + song_data[i].Duration <= m

\* main once game.run() is entered; its locals are no longer read.
Running == [program |-> "learn", pc |-> "running"]

\* learn.py main: the game is built from a non-empty parsed track and the
\* --instrument option may set the override before run().
Init ==
    /\ CoIdle
    /\ phase = "Instructions"
    /\ current_time = 0
    /\ \E track \in Tracks : song_data = prepare_song_data(track)
    /\ score = 0 /\ correct_hits = 0 /\ missed_notes = 0 /\ wrong_notes = 0
    /\ \E o \in {<<PIANO, FALSE>>, <<PIANO, TRUE>>, <<ELECTRO_GUITAR, TRUE>>} :
          current_instrument = o[1] /\ override_instruments = o[2]
    /\ note_accuracy = EmptyMap
    /\ beat_accuracy_total = 0 /\ beat_accuracy_count = 0
    /\ currently_playing = EmptyMap
    /\ key_to_note_map = EmptyMap
    /\ last_played_index = 0
    /\ cancelled = FALSE
    /\ bound_at = EmptyMap
    /\ repressed = {}
    /\ measured = <<>>
    /\ startup = Running

\* --------------------------------------------------------------- helpers
\* The instrument filter of process_key_event (override_instruments set).
filter_by_instrument(song, active, cur) ==
    LET none_match ==
            \A j \in 1..Len(active) : song[active[j][1]].Instrument # cur
        keep(e) == none_match \/ song[e[1]].Instrument = cur
        filtered_notes == SelectSeq(active, keep)
    IN IF filtered_notes # <<>> THEN filtered_notes ELSE active

closest_first_listed(active) == active[1]

\* min(active_notes, key=lambda x: x[1]): the first entry of least distance.
closest(active) ==
    LET j == CHOOSE j \in 1..Len(active) :
                /\ \A m \in 1..Len(active) : active[m][2] >= active[j][2]
                /\ \A m \in 1..(j - 1) : active[m][2] > active[j][2]
    IN active[j]

\* The entries the press is judged against.
candidates(song, t, override, cur) ==
    LET active == find_active_notes(song, t)
    IN IF active # <<>> /\ override
       THEN filter_by_instrument(song, active, cur)
       ELSE active

\* The correct branch's writes to closest_note.
mark_played_forgotten(song, n) ==
    [song EXCEPT ![n].expected_duration = song[n].Duration,
                 ![n].actual_duration = 0,
                 ![n].beat_accuracy = 0]

mark_played(song, n) ==
    [song EXCEPT ![n].played = TRUE,
                 ![n].expected_duration = song[n].Duration,
                 ![n].actual_duration = 0,
                 ![n].beat_accuracy = 0]

mark_wrong_forgotten(song, n) == song

\* closest_note['wrong'] = True
mark_wrong(song, n) == [song EXCEPT ![n].wrong = TRUE]

\* note_accuracy[name][field] += 1, creating the entry when absent.
tally(acc, name, field) ==
    LET old == IF name \in DOMAIN acc THEN acc[name]
               ELSE [correct |-> 0, wrong |-> 0]
    IN Put(acc, name, [old EXCEPT ![field] = @ + 1])

accuracy_of_unclamped(press_duration, expected_duration) ==
    (press_duration * 100 * AccDen) \div expected_duration

\* accuracy of a release, in units of 1/AccDen percent.
accuracy_of(press_duration, expected_duration) ==
    IF press_duration >= expected_duration
    THEN 100 * AccDen
    ELSE (press_duration * 100 * AccDen) \div expected_duration

get_beat_accuracy_per_note ==
    IF beat_accuracy_count > 0
    THEN <<beat_accuracy_total, max_score>>
    ELSE <<0, 1>>

\* get_beat_accuracy as the fraction <<numerator, denominator>>.
get_beat_accuracy ==
    IF beat_accuracy_count > 0
    THEN <<beat_accuracy_total, beat_accuracy_count>>
    ELSE <<0, 1>>

\* draw_game_screen: the "Note Accuracy" figure of the Live screen, as the
\* fraction <<numerator, denominator>> of a percentage.
note_accuracy_shown(correct, missed, wrong) ==
    LET total_attempted == correct + wrong + missed
    IN IF total_attempted > 0
       THEN <<correct * 100, total_attempted>>
       ELSE <<0, 1>>

\* draw_game_over_screen: the percentage printed with the note grade,
\* int(score / max_score * 100).
note_percentage(sc, max_sc) ==
    IF max_sc > 0 THEN Trunc(sc * 100, max_sc) ELSE 0

reset_flags_wrong_set(song) ==
    [i \in 1..Len(song) |->
        [song[i] EXCEPT !.played = FALSE, !.missed = FALSE, !.wrong = TRUE]]

\* note['played'] = note['missed'] = note['wrong'] = False for every note.
reset_flags(song) ==
    [i \in 1..Len(song) |->
        [song[i] EXCEPT !.played = FALSE, !.missed = FALSE, !.wrong = FALSE]]

\* sorted(self.song_data, key=Start Time): note indices, stable.
sorted_notes(song) ==
    LET before(j, i) ==
            \/ song[j].Start < song[i].Start
            \/ song[j].Start = song[i].Start /\ j < i
        rank(i) == 1 + Cardinality({j \in 1..Len(song) : before(j, i)})
    IN [r \in 1..Len(song) |-> CHOOSE i \in 1..Len(song) : rank(i) = r]

toggled(cur) == IF cur = PIANO THEN ELECTRO_GUITAR ELSE PIANO

\* ------------------------------------------------ process_key_event: press
\* The wrong counter is capped at MaxWrong: a press that would raise it
\* beyond the cap is not taken.
KeyDown(k) ==
    /\ UNCHANGED <<startup, co_vars>>
    /\ phase = "Live"
    /\ LET played_note == KEY_MAPPINGS[k]
           active_notes == candidates(song_data, current_time,
                                      override_instruments, current_instrument)
       IN /\ currently_playing' =
                Put(currently_playing, k,
                    [start_time |-> current_time, note |-> played_note])
          /\ IF active_notes # <<>>
             THEN LET n == closest(active_notes)[1]
                  IN IF song_data[n].Note = played_note
                     THEN /\ song_data' = mark_played(song_data, n)
                          /\ score' = score + 1
                          /\ correct_hits' = correct_hits + 1
                          /\ key_to_note_map' = Put(key_to_note_map, k, n)
                          /\ note_accuracy' =
                               tally(note_accuracy, played_note, "correct")
                          /\ UNCHANGED wrong_notes
                          /\ bound_at' =
                               [x \in (DOMAIN bound_at) \cup {k} |->
                                  IF x = k THEN current_time ELSE bound_at[x]]
                          /\ repressed' = repressed \ {k}
                     ELSE /\ wrong_notes < MaxWrong
                          /\ song_data' = mark_wrong(song_data, n)
                          /\ wrong_notes' = wrong_notes + 1
                          /\ note_accuracy' =
                               tally(note_accuracy, played_note, "wrong")
                          /\ UNCHANGED <<score, correct_hits,
                                         key_to_note_map, bound_at>>
                          /\ repressed' =
                               IF k \in DOMAIN bound_at
                               THEN repressed \cup {k} ELSE repressed
             ELSE /\ wrong_notes < MaxWrong
                  /\ wrong_notes' = wrong_notes + 1
                  /\ note_accuracy' =
                        tally(note_accuracy, played_note, "wrong")
                  /\ UNCHANGED <<song_data, score, correct_hits,
                                 key_to_note_map, bound_at>>
                  /\ repressed' =
                        IF k \in DOMAIN bound_at
                        THEN repressed \cup {k} ELSE repressed
    /\ UNCHANGED <<phase, current_time, missed_notes, instrument_state,
                   beat_accuracy_total, beat_accuracy_count,
                   last_played_index, cancelled, measured>>

\* ---------------------------------------------- process_key_event: release
KeyUp(k) ==
    /\ UNCHANGED <<startup, co_vars>>
    /\ phase = "Live"
    /\ IF k \in DOMAIN currently_playing
       THEN LET press_data == currently_playing[k]
                press_duration == current_time - press_data.start_time
            IN /\ IF k \in DOMAIN key_to_note_map
                  THEN LET n == key_to_note_map[k]
                           expected_duration == song_data[n].expected_duration
                           accuracy == accuracy_of(press_duration,
                                                   expected_duration)
                       IN /\ song_data' =
                               [song_data EXCEPT
                                  ![n].actual_duration = press_duration,
                                  ![n].beat_accuracy = accuracy]
                          /\ beat_accuracy_total' =
                               beat_accuracy_total + accuracy
                          /\ beat_accuracy_count' = beat_accuracy_count + 1
                          /\ key_to_note_map' = Del(key_to_note_map, k)
                          /\ measured' = Append(measured, accuracy)
                  ELSE UNCHANGED <<song_data, beat_accuracy_total,
                                   beat_accuracy_count, key_to_note_map,
                                   measured>>
               /\ currently_playing' = Del(currently_playing, k)
       ELSE UNCHANGED <<song_data, beat_accuracy_total, beat_accuracy_count,
                        key_to_note_map, currently_playing, measured>>
    /\ bound_at' = [x \in (DOMAIN bound_at) \ {k} |-> bound_at[x]]
    /\ repressed' = repressed \ {k}
    /\ UNCHANGED <<phase, current_time, score, correct_hits, missed_notes,
                   wrong_notes, instrument_state, note_accuracy,
                   last_played_index, cancelled>>

\* W pressed during Live: toggle_instrument, then return.
ToggleLive ==
    /\ UNCHANGED <<startup, co_vars>>
    /\ phase = "Live"
    /\ current_instrument' = toggled(current_instrument)
    /\ override_instruments' = TRUE
    /\ UNCHANGED <<phase, current_time, song_data, judge, last_played_index,
                   hist>>

\* ------------------------------------------------------------ run: Live
all_notes_handled(song) == \A i \in 1..Len(song) : Handled(song[i])

\* The rest of a loop iteration once its events are drained: the sweep,
\* the end test, and the time the next iteration reads.
Frame ==
    /\ UNCHANGED <<startup, co_vars>>
    /\ phase = "Live"
    /\ LET visible_notes == get_visible_notes(song_data, current_time)
           swept == MissedSweep(song_data, visible_notes, current_time)
       IN /\ song_data' = swept
          /\ missed_notes' = update_missed_notes(song_data, visible_notes,
                                                 current_time, missed_notes)
          /\ IF /\ all_notes_handled(swept)
                /\ current_time > last_note_time + GraceSeconds * TicksPerSecond
             THEN /\ phase' = "Summary"
                  /\ UNCHANGED current_time
             ELSE /\ UNCHANGED phase
                  /\ \E dt \in 1..MaxDt : current_time' = current_time + dt
    /\ UNCHANGED <<score, correct_hits, wrong_notes, instrument_state,
                   note_accuracy, beat_accuracy_total, beat_accuracy_count,
                   currently_playing, key_to_note_map, last_played_index,
                   hist>>

\* QUIT or ESC among the events: running = False, break; the iteration
\* still runs its sweep and then the loop ends and show_game_over follows.
Cancel ==
    /\ UNCHANGED <<startup, co_vars>>
    /\ phase = "Live"
    /\ LET visible_notes == get_visible_notes(song_data, current_time)
       IN /\ song_data' = MissedSweep(song_data, visible_notes, current_time)
          /\ missed_notes' = update_missed_notes(song_data, visible_notes,
                                                 current_time, missed_notes)
    /\ phase' = "Summary"
    /\ cancelled' = TRUE
    /\ UNCHANGED <<current_time, score, correct_hits, wrong_notes,
                   instrument_state, note_accuracy, beat_accuracy_total,
                   beat_accuracy_count, currently_playing, key_to_note_map,
                   last_played_index, bound_at, repressed, measured>>

\* show_game_over returns (time-out, ESC or QUIT); pygame.quit().
SummaryDone ==
    /\ UNCHANGED <<startup, co_vars>>
    /\ phase = "Summary"
    /\ phase' = "Exited"
    /\ UNCHANGED <<current_time, song_data, judge, instrument_state,
                   last_played_index, hist>>

\* ------------------------------------------- run: before the Live loop
\* show_instructions returns True (SPACE or time-out); run_pre_play begins
\* by clearing the flags of every note.
InstructionsDone ==
    /\ UNCHANGED <<startup, co_vars>>
    /\ phase = "Instructions"
    /\ phase' = "PreviewPlayback"
    /\ song_data' = reset_flags(song_data)
    /\ current_time' = 0
    /\ last_played_index' = 0
    /\ UNCHANGED <<judge, instrument_state, hist>>

\* QUIT on the instruction screen: run() returns.
InstructionsQuit ==
    /\ UNCHANGED <<startup, co_vars>>
    /\ phase = "Instructions"
    /\ phase' = "Exited"
    /\ UNCHANGED <<current_time, song_data, judge, instrument_state,
                   last_played_index, hist>>

\* One iteration of the demonstration loop without SPACE or QUIT.
PreviewFrame ==
    /\ UNCHANGED <<startup, co_vars>>
    /\ phase = "PreviewPlayback"
    /\ LET order == sorted_notes(song_data)
           due == {r \in 1..Len(order) :
                     /\ r > last_played_index
                     /\ current_time >= song_data[order[r]].Start}
           last == IF due = {} THEN last_played_index
                   ELSE CHOOSE r \in due : \A q \in due : q <= r
       IN IF current_time > last_note_time + PreviewTailSeconds * TicksPerSecond
          THEN /\ phase' = "Ready"
               /\ last_played_index' = 0
               /\ UNCHANGED current_time
          ELSE /\ UNCHANGED phase
               /\ last_played_index' = last
               /\ \E dt \in 1..MaxDt : current_time' = current_time + dt
    /\ UNCHANGED <<song_data, judge, instrument_state, hist>>

\* SPACE during the demonstration: run_pre_play returns True at once and
\* the Live loop starts its own clock.
PreviewSkip ==
    /\ UNCHANGED <<startup, co_vars>>
    /\ phase = "PreviewPlayback"
    /\ phase' = "Live"
    /\ current_time' = 0
    /\ last_played_index' = 0
    /\ UNCHANGED <<song_data, judge, instrument_state, hist>>

\* QUIT during the demonstration or on the ready screen: run() returns.
PreviewQuit ==
    /\ UNCHANGED <<startup, co_vars>>
    /\ phase \in {"PreviewPlayback", "Ready"}
    /\ phase' = "Exited"
    /\ last_played_index' = 0
    /\ UNCHANGED <<current_time, song_data, judge, instrument_state, hist>>

\* W on the "Ready to play?" screen.
ReadyToggle ==
    /\ UNCHANGED <<startup, co_vars>>
    /\ phase = "Ready"
    /\ current_instrument' = toggled(current_instrument)
    /\ override_instruments' = TRUE
    /\ UNCHANGED <<phase, current_time, song_data, judge, last_played_index,
                   hist>>

\* SPACE on the "Ready to play?" screen: flags reset, then the Live loop.
ReadyStart ==
    /\ UNCHANGED <<startup, co_vars>>
    /\ phase = "Ready"
    /\ song_data' = reset_flags(song_data)
    /\ phase' = "Live"
    /\ current_time' = 0
    /\ UNCHANGED <<judge, instrument_state, last_played_index, hist>>

Next ==
    \/ InstructionsDone
    \/ InstructionsQuit
    \/ PreviewFrame
    \/ PreviewSkip
    \/ PreviewQuit
    \/ ReadyToggle
    \/ ReadyStart
    \/ \E k \in Keys : KeyDown(k)
    \/ \E k \in Keys : KeyUp(k)
    \/ ToggleLive
    \/ Frame
    \/ Cancel
    \/ SummaryDone

Spec == Init /\ [][Next]_vars

\* The Live loop iterates unconditionally (clock.tick(60) returns), so an
\* iteration that is due is eventually run; the player is not obliged to do
\* anything.
FairSpec == Init /\ [][Next]_vars /\ WF_vars(Frame)

\* ---------------------------------------------------------------- start-up
game_vars ==
    <<phase, current_time, song_data, score, correct_hits, missed_notes,
      wrong_notes, current_instrument, override_instruments, note_accuracy,
      beat_accuracy_total, beat_accuracy_count, currently_playing,
      key_to_note_map, last_played_index, cancelled, bound_at, repressed,
      measured>>

\* No SlidePlayGame object exists.
NoGame ==
    /\ phase = "NotConstructed"
    /\ current_time = 0
    /\ song_data = <<>>
    /\ score = 0 /\ correct_hits = 0 /\ missed_notes = 0 /\ wrong_notes = 0
    /\ current_instrument = PIANO /\ override_instruments = FALSE
    /\ note_accuracy = EmptyMap
    /\ beat_accuracy_total = 0 /\ beat_accuracy_count = 0
    /\ currently_playing = EmptyMap
    /\ key_to_note_map = EmptyMap
    /\ last_played_index = 0
    /\ cancelled = FALSE
    /\ bound_at = EmptyMap
    /\ repressed = {}
    /\ measured = <<>>

\* A program is started on a track file that is absent, or present with the
\* text of some token list: learn.py main ("learn") or the track loading of
\* Co.py's MusicConnection ("lan").
StartupInit ==
    /\ NoGame
    /\ CoIdle
    /\ \E program \in {"learn", "lan"}, file_exists \in BOOLEAN,
          tokens \in TokenLists :
          /\ ~file_exists => tokens = <<>>
          /\ startup =
               [program |-> program,
                pc |-> "main",
                file_exists |-> file_exists,
                tokens |-> tokens,
                input_data |-> FileText(tokens),
                raised |-> FALSE,
                is_none |-> FALSE,
                song_data |-> <<>>,
                warnings |-> <<>>,
                track_name |-> "none"]

\* learn.py load_song_from_file: None when the file is absent or the parse
\* raises, the parsed list otherwise.
load_song_from_file ==
    /\ startup.program = "learn" /\ startup.pc = "main"
    /\ LET r == parse_music_data(startup.input_data)
       IN startup' =
            IF ~startup.file_exists
            THEN [startup EXCEPT !.pc = "loaded", !.is_none = TRUE]
            ELSE IF r.raised
                 THEN [startup EXCEPT !.pc = "loaded", !.is_none = TRUE,
                                      !.raised = TRUE,
                                      !.warnings = r.warnings]
                 ELSE [startup EXCEPT !.pc = "loaded",
                                      !.song_data = r.parsed_data,
                                      !.warnings = r.warnings]
    /\ UNCHANGED <<game_vars, co_vars>>

truthy_not_none(is_none, data) == ~is_none

\* Python truth of main's song_data: neither None nor an empty list.
truthy(is_none, data) == ~is_none /\ data # <<>>

\* main: "if song_data:" holds; SlidePlayGame(song_data), whose min() over
\* the octaves raises ValueError for an empty list, then game.run().
StartGame ==
    /\ startup.program = "learn" /\ startup.pc = "loaded"
    /\ truthy(startup.is_none, startup.song_data)
    /\ startup' =
         [startup EXCEPT !.pc = IF startup.song_data = <<>>
                                THEN "crashed" ELSE "running"]
    /\ UNCHANGED <<game_vars, co_vars>>

\* main: "Failed to load song data. Exiting."
FailToStart ==
    /\ startup.program = "learn" /\ startup.pc = "loaded"
    /\ ~truthy(startup.is_none, startup.song_data)
    /\ startup' = [startup EXCEPT !.pc = "failed"]
    /\ UNCHANGED <<game_vars, co_vars>>

\* Co.py MusicConnection.load_track: the file's notes, or the notes of
\* FALLBACK_TRACK after any exception (absent file, empty file, parse
\* error); returns True either way.
load_track ==
    /\ startup.program = "lan" /\ startup.pc = "main"
    /\ LET r == parse_music_data(startup.input_data)
           fails == \/ ~startup.file_exists
                    \/ split_whitespace(startup.input_data) = <<>>
                    \/ r.raised
           f == parse_music_data(FALLBACK_TRACK)
       IN startup' =
            IF fails
            THEN [startup EXCEPT !.pc = "track_loaded",
                                 !.raised = f.raised,
                                 !.song_data = f.parsed_data,
                                 !.warnings = f.warnings,
                                 !.track_name = "fallback_track.txt"]
            ELSE [startup EXCEPT !.pc = "track_loaded",
                                 !.song_data = r.parsed_data,
                                 !.warnings = r.warnings,
                                 !.track_name = "track.txt"]
    /\ UNCHANGED <<game_vars, co_vars>>

StartupNext ==
    \/ load_song_from_file
    \/ StartGame
    \/ FailToStart
    \/ load_track

StartupSpec == StartupInit /\ [][StartupNext]_vars

\* =============================================== Co.py: LAN playing mode
\* Each instance runs its UI thread (handle_events), its message thread
\* (handle_connection calling process_message for one message after the
\* other) and the playback threads start_playback has created. A step is
\* one read or write of an attribute the threads share; time.sleep and the
\* loop iterations that play notes change nothing the threads share and are
\* stuttering. The TCP connection delivers the messages of one direction in
\* the order they were sent.
MaxPresses == 1

LanRunning == [program |-> "lan", pc |-> "connected"]

LanInit ==
    /\ NoGame
    /\ startup = LanRunning
    /\ link = Connected
    /\ scan = NotRunning

LiveLoops(i) ==
    link.loops[i]["while"] + link.loops[i]["set_local"]
      + link.loops[i]["send_complete"] + link.loops[i]["test_remote"]
      + link.loops[i]["mark"] + link.loops[i]["finally"]

Move(bag, from, to) == [bag EXCEPT ![from] = @ - 1, ![to] = @ + 1]

\* send_message: the message is written to the connection to the peer.
Sent(inbox, i, m) == [inbox EXCEPT ![Peer(i)] = Append(@, m)]

lan_others == <<game_vars, startup, scan>>

\* handle_events: 'P' in CONNECTION_ACTIVE calls prepare_for_playback (the
\* track is loaded: load_track always leaves notes).
PressP(i) ==
    /\ link.state[i] = "CONNECTION_ACTIVE"
    /\ link.ui[i] = "idle"
    /\ link.presses[i] < MaxPresses
    /\ link' = [link EXCEPT !.ui[i] = "local_ready",
                            !.presses[i] = @ + 1,
                            !.started[i] = 0]
    /\ UNCHANGED lan_others

\* prepare_for_playback: "Reset playback state", one assignment a step.
ResetStep(i) ==
    /\ link.ui[i] \in {"local_ready", "remote_ready", "playback_completed",
                       "local_completed", "remote_completed"}
    /\ link' =
         CASE link.ui[i] = "local_ready" ->
                [link EXCEPT !.local_ready[i] = TRUE,
                             !.ui[i] = "remote_ready"]
           [] link.ui[i] = "remote_ready" ->
                [link EXCEPT !.remote_ready[i] = FALSE,
                             !.ui[i] = "playback_completed"]
           [] link.ui[i] = "playback_completed" ->
                [link EXCEPT !.playback_completed[i] = FALSE,
                             !.ui[i] = "local_completed"]
           [] link.ui[i] = "local_completed" ->
                [link EXCEPT !.local_completed[i] = FALSE,
                             !.ui[i] = "remote_completed"]
           [] link.ui[i] = "remote_completed" ->
                [link EXCEPT !.remote_completed[i] = FALSE,
                             !.ui[i] = "state"]
    /\ UNCHANGED lan_others

\* prepare_for_playback: self.state = PLAYING_MODE.
EnterPlaying(i) ==
    /\ link.ui[i] = "state"
    /\ link' = [link EXCEPT !.state[i] = "PLAYING_MODE",
                            !.ui[i] = "send_ready"]
    /\ UNCHANGED lan_others

\* prepare_for_playback: MSG_PLAYBACK_READY to the peer; the master goes on
\* into start_playback, the slave returns.
SendReady(i) ==
    /\ link.ui[i] = "send_ready"
    /\ link' = [link EXCEPT
                  !.inbox = Sent(@, i, "playback_ready"),
                  !.ui[i] = IF selected_role(i) = 0
                            THEN "playback_running" ELSE "idle"]
    /\ UNCHANGED lan_others

\* start_playback, called by thread th ("ui" or "msg") of the instance:
\* self.playback_running = True.
start_playback_flag(i, th) ==
    /\ link[th][i] = "playback_running"
    /\ link' = [link EXCEPT !.playback_running[i] = TRUE,
                            ![th][i] = "thread_start"]
    /\ UNCHANGED lan_others

\* start_playback: playback_thread.start().
start_playback_thread(i, th) ==
    /\ link[th][i] = "thread_start"
    /\ link' = [link EXCEPT
                  !.loops[i]["while"] = @ + 1,
                  !.started[i] = @ + 1,
                  ![th][i] = IF selected_role(i) = 0
                             THEN "send_start" ELSE "idle"]
    /\ UNCHANGED lan_others

\* start_playback: the master sends MSG_START_PLAYBACK.
start_playback_send(i, th) ==
    /\ link[th][i] = "send_start"
    /\ link' = [link EXCEPT !.inbox = Sent(@, i, "start_playback"),
                            ![th][i] = "idle"]
    /\ UNCHANGED lan_others

\* handle_events: ESC in PLAYING_MODE, self.playback_running = False and
\* self.state = CONNECTION_ACTIVE. No other thread reads or writes both
\* attributes in one step, so the two assignments are taken together.
PressEsc(i) ==
    /\ link.state[i] = "PLAYING_MODE"
    /\ link.ui[i] = "idle"
    /\ link' = [link EXCEPT !.playback_running[i] = FALSE,
                            !.state[i] = "CONNECTION_ACTIVE"]
    /\ UNCHANGED lan_others

MsgReady(i, type) ==
    /\ link.msg[i] = "idle"
    /\ link.inbox[i] # <<>>
    /\ Head(link.inbox[i]) = type

\* process_message, MSG_PLAYBACK_READY: self.remote_ready = True.
RecvReady(i) ==
    /\ MsgReady(i, "playback_ready")
    /\ link' = [link EXCEPT !.inbox[i] = Tail(@),
                            !.remote_ready[i] = TRUE,
                            !.msg[i] = "ready_test"]
    /\ UNCHANGED lan_others

\* process_message, MSG_PLAYBACK_READY: "if self.local_ready and
\* self.remote_ready and self.state == PLAYING_MODE" and the role is
\* master, start_playback.
ReadyTest(i) ==
    /\ link.msg[i] = "ready_test"
    /\ link' = [link EXCEPT
                  !.msg[i] = IF /\ link.local_ready[i]
                                /\ link.remote_ready[i]
                                /\ link.state[i] = "PLAYING_MODE"
                                /\ selected_role(i) = 0
                             THEN "playback_running" ELSE "idle"]
    /\ UNCHANGED lan_others

\* process_message, MSG_START_PLAYBACK: start_playback in PLAYING_MODE.
RecvStart(i) ==
    /\ MsgReady(i, "start_playback")
    /\ link' = [link EXCEPT
                  !.inbox[i] = Tail(@),
                  !.msg[i] = IF link.state[i] = "PLAYING_MODE"
                             THEN "playback_running" ELSE "idle"]
    /\ UNCHANGED lan_others

\* process_message, MSG_PLAYBACK_COMPLETE: self.remote_completed = True.
RecvComplete(i) ==
    /\ MsgReady(i, "playback_complete")
    /\ link' = [link EXCEPT !.inbox[i] = Tail(@),
                            !.remote_completed[i] = TRUE,
                            !.msg[i] = "complete_test"]
    /\ UNCHANGED lan_others

\* "if self.local_completed and self.remote_completed".
CompleteTest(i) ==
    /\ link.msg[i] = "complete_test"
    /\ link' = [link EXCEPT
                  !.msg[i] = IF /\ link.local_completed[i]
                                /\ link.remote_completed[i]
                             THEN "complete_mark" ELSE "idle"]
    /\ UNCHANGED lan_others

\* self.playback_completed = True.
CompleteMark(i) ==
    /\ link.msg[i] = "complete_mark"
    /\ link' = [link EXCEPT !.playback_completed[i] = TRUE,
                            !.msg[i] = "complete_timer"]
    /\ UNCHANGED lan_others

\* "if self.state == PLAYING_MODE": Timer(5.0, self.return_to_connected).
CompleteTimer(i) ==
    /\ link.msg[i] = "complete_timer"
    /\ link' = [link EXCEPT
                  !.timers[i] = IF link.state[i] = "PLAYING_MODE"
                                THEN @ + 1 ELSE @,
                  !.msg[i] = "idle"]
    /\ UNCHANGED lan_others

\* The timer thread runs return_to_connected.
return_to_connected(i) ==
    /\ link.timers[i] > 0
    /\ link' = [link EXCEPT
                  !.timers[i] = @ - 1,
                  !.state[i] = IF @ = "PLAYING_MODE"
                               THEN "CONNECTION_ACTIVE" ELSE @]
    /\ UNCHANGED lan_others

\* playback_loop: "while self.playback_running and not
\* self.playback_completed" is read; the iteration is either the one in
\* which no note is pending and current_time > max_song_time, or the loop
\* is left.
LoopWhile(i) ==
    /\ link.loops[i]["while"] > 0
    /\ link' = [link EXCEPT
                  !.loops[i] =
                     Move(@, "while",
                          IF /\ link.playback_running[i]
                             /\ ~link.playback_completed[i]
                          THEN "set_local" ELSE "finally")]
    /\ UNCHANGED lan_others

\* playback_loop: self.local_completed = True.
LoopSetLocal(i) ==
    /\ link.loops[i]["set_local"] > 0
    /\ link' = [link EXCEPT
                  !.local_completed[i] = TRUE,
                  !.loops[i] = Move(@, "set_local", "send_complete")]
    /\ UNCHANGED lan_others

\* playback_loop: MSG_PLAYBACK_COMPLETE to the peer.
LoopSendComplete(i) ==
    /\ link.loops[i]["send_complete"] > 0
    /\ link' = [link EXCEPT
                  !.inbox = Sent(@, i, "playback_complete"),
                  !.loops[i] = Move(@, "send_complete", "test_remote")]
    /\ UNCHANGED lan_others

LoopTestRemote_untested(i) ==
    /\ link.loops[i]["test_remote"] > 0
    /\ link' = [link EXCEPT
                  !.loops[i] = Move(@, "test_remote", "finally")]
    /\ UNCHANGED lan_others

\* playback_loop: "if self.remote_completed".
LoopTestRemote(i) ==
    /\ link.loops[i]["test_remote"] > 0
    /\ link' = [link EXCEPT
                  !.loops[i] =
                     Move(@, "test_remote",
                          IF link.remote_completed[i]
                          THEN "mark" ELSE "finally")]
    /\ UNCHANGED lan_others

\* playback_loop: self.playback_completed = True.
LoopMark(i) ==
    /\ link.loops[i]["mark"] > 0
    /\ link' = [link EXCEPT
                  !.playback_completed[i] = TRUE,
                  !.loops[i] = Move(@, "mark", "finally")]
    /\ UNCHANGED lan_others

\* playback_loop: "finally: self.playback_running = False"; the thread
\* ends.
LoopFinally(i) ==
    /\ link.loops[i]["finally"] > 0
    /\ link' = [link EXCEPT
                  !.playback_running[i] = FALSE,
                  !.loops[i]["finally"] = @ - 1]
    /\ UNCHANGED lan_others

LanNext ==
    \E i \in Inst :
        \/ PressP(i)
        \/ ResetStep(i)
        \/ EnterPlaying(i)
        \/ SendReady(i)
        \/ \E th \in {"ui", "msg"} :
              \/ start_playback_flag(i, th)
              \/ start_playback_thread(i, th)
              \/ start_playback_send(i, th)
        \/ PressEsc(i)
        \/ RecvReady(i)
        \/ ReadyTest(i)
        \/ RecvStart(i)
        \/ RecvComplete(i)
        \/ CompleteTest(i)
        \/ CompleteMark(i)
        \/ CompleteTimer(i)
        \/ return_to_connected(i)
        \/ LoopWhile(i)
        \/ LoopSetLocal(i)
        \/ LoopSendComplete(i)
        \/ LoopTestRemote(i)
        \/ LoopMark(i)
        \/ LoopFinally(i)

LanSpec == LanInit /\ [][LanNext]_vars

\* ========================================== Co.py: the master's discovery
\* The master's UI thread (handle_events), the discovery threads that
\* start_server has created (discover_slaves) and the server_listen thread
\* of a connection attempt. The broadcast and the response socket are
\* opened and closed together and are one numbered pair: scan.sockets is
\* the pair the attributes refer to (0 for None), scan.open the pairs not
\* closed yet. A discovery thread is <<n, pc>>, n the number of the scan
\* that started it. time.sleep lets the other threads run and is no step of
\* its own; active_slaves records only whether any slave is listed.
MaxScans == 2

ScanInit ==
    /\ NoGame
    /\ startup = LanRunning
    /\ link = NotRunning
    /\ scan = MasterIdle

scan_others == <<game_vars, startup, link>>

\* handle_events: 'S' in MASTER_MODE with a track loaded calls start_server.
PressS ==
    /\ scan.state = "MASTER_MODE"
    /\ scan.ui = "idle"
    /\ scan.scans < MaxScans
    /\ scan' = [scan EXCEPT !.ui = "close_sockets"]
    /\ UNCHANGED scan_others

\* handle_events: 'R' in SLAVE_SELECT, self.discovery_running = False,
\* time.sleep(0.2), then active_slaves.clear() and start_server.
PressR ==
    /\ scan.state = "SLAVE_SELECT"
    /\ scan.ui = "idle"
    /\ scan.scans < MaxScans
    /\ scan' = [scan EXCEPT !.discovery_running = FALSE,
                            !.ui = "close_sockets"]
    /\ UNCHANGED scan_others

\* handle_events: ESC in SLAVE_SELECT, self.discovery_running = False,
\* time.sleep(0.2) ...
PressEscape ==
    /\ scan.state = "SLAVE_SELECT"
    /\ scan.ui = "idle"
    /\ scan' = [scan EXCEPT !.discovery_running = FALSE,
                            !.ui = "master_mode"]
    /\ UNCHANGED scan_others

\* ... then self.state = MASTER_MODE and the status "Disconnected".
BackToMaster ==
    /\ scan.ui = "master_mode"
    /\ scan' = [scan EXCEPT !.state = "MASTER_MODE",
                            !.connection_status = "Disconnected",
                            !.ui = "idle"]
    /\ UNCHANGED scan_others

\* start_server, run by thread th ("ui" or "server"): active_slaves.clear()
\* and close_sockets(), which closes every socket and sets the attributes
\* to None.
start_server_close(th) ==
    /\ scan[th] = "close_sockets"
    /\ scan' = [scan EXCEPT !.active_slaves = FALSE,
                            !.open = @ \ {scan.sockets},
                            !.sockets = 0,
                            !.listen_socket = FALSE,
                            ![th] = "new_sockets"]
    /\ UNCHANGED scan_others

\* start_server: the broadcast and the response socket are created.
start_server_sockets(th) ==
    /\ scan[th] = "new_sockets"
    /\ scan' = [scan EXCEPT !.scans = @ + 1,
                            !.sockets = scan.scans + 1,
                            !.open = @ \cup {scan.scans + 1},
                            ![th] = "discovery_running"]
    /\ UNCHANGED scan_others

\* start_server: self.discovery_running = True.
start_server_flag(th) ==
    /\ scan[th] = "discovery_running"
    /\ scan' = [scan EXCEPT !.discovery_running = TRUE,
                            ![th] = "thread_start"]
    /\ UNCHANGED scan_others

\* start_server: when the previous thread is alive, time.sleep(0.5); then
\* the new thread is started either way.
start_server_thread(th) ==
    /\ scan[th] = "thread_start"
    /\ scan' = [scan EXCEPT !.threads = @ \cup {<<scan.scans, "while">>},
                            ![th] = "slave_select"]
    /\ UNCHANGED scan_others

\* start_server: self.state = SLAVE_SELECT; the caller goes on (the
\* server_listen thread ends, its socket is closed already).
start_server_state(th) ==
    /\ scan[th] = "slave_select"
    /\ scan' = [scan EXCEPT !.state = "SLAVE_SELECT",
                            !.connection_status = "Scanning for slaves...",
                            ![th] = IF th = "ui" THEN "idle" ELSE "none"]
    /\ UNCHANGED scan_others

\* handle_events: ENTER on a listed slave calls connect_to_slave, which
\* begins with self.discovery_running = False and time.sleep(0.2). One
\* connection attempt at a time is followed.
PressReturn ==
    /\ scan.state = "SLAVE_SELECT"
    /\ scan.ui = "idle"
    /\ scan.active_slaves
    /\ scan.server = "none"
    /\ scan' = [scan EXCEPT !.discovery_running = FALSE,
                            !.ui = "connect_close"]
    /\ UNCHANGED scan_others

\* connect_to_slave: close_sockets().
connect_to_slave_close ==
    /\ scan.ui = "connect_close"
    /\ scan' = [scan EXCEPT !.open = @ \ {scan.sockets},
                            !.sockets = 0,
                            !.listen_socket = FALSE,
                            !.ui = "connect_listen"]
    /\ UNCHANGED scan_others

\* connect_to_slave: the listening socket is made, the request is sent and
\* the server_listen thread is started.
connect_to_slave_listen ==
    /\ scan.ui = "connect_listen"
    /\ scan' = [scan EXCEPT !.listen_socket = TRUE,
                            !.connection_status = "Waiting for slave",
                            !.server = "accept",
                            !.ui = "idle"]
    /\ UNCHANGED scan_others

\* server_listen: the slave connects.
ServerAccepts ==
    /\ scan.server = "accept"
    /\ scan.listen_socket
    /\ scan' = [scan EXCEPT !.state = "CONNECTION_ACTIVE",
                            !.connection_status = "Connected",
                            !.server = "none"]
    /\ UNCHANGED scan_others

\* server_listen: accept on a socket that close_sockets has closed raises,
\* "Server error" is reported and the thread ends.
ServerFails ==
    /\ scan.server = "accept"
    /\ ~scan.listen_socket
    /\ scan' = [scan EXCEPT !.connection_status = "Error",
                            !.server = "none"]
    /\ UNCHANGED scan_others

\* server_listen: the time-outs are used up, or one of them found the
\* state changed.
ServerTimesOut ==
    /\ scan.server = "accept"
    /\ scan.listen_socket
    /\ scan' = [scan EXCEPT !.connection_status = "Connection timed out",
                            !.server = "timed_out"]
    /\ UNCHANGED scan_others

\* server_listen: "if self.state == SLAVE_SELECT: self.start_server()";
\* otherwise the finally clause closes the listening socket.
ServerRestarts ==
    /\ scan.server = "timed_out"
    /\ scan.state = "SLAVE_SELECT" => scan.scans < MaxScans
    /\ scan' = IF scan.state = "SLAVE_SELECT"
               THEN [scan EXCEPT !.server = "close_sockets"]
               ELSE [scan EXCEPT !.server = "none",
                                 !.listen_socket = FALSE]
    /\ UNCHANGED scan_others

\* discover_slaves, thread t: "while self.discovery_running and self.state
\* == SLAVE_SELECT" and one iteration, which may list a slave; with the
\* socket attributes None the iteration raises and the thread goes to its
\* finally clause as it does when the test fails.
DiscoverIteration(t) ==
    /\ t \in scan.threads
    /\ t[2] = "while"
    /\ IF scan.discovery_running /\ scan.state = "SLAVE_SELECT"
          /\ scan.sockets # 0
       THEN \E found \in BOOLEAN :
               scan' = [scan EXCEPT !.active_slaves = @ \/ found]
       ELSE scan' = [scan EXCEPT
                       !.threads = (@ \ {t}) \cup {<<t[1], "finally">>}]
    /\ UNCHANGED scan_others

\* discover_slaves, finally: the sockets the attributes refer to now are
\* closed and the attributes set to None; the thread ends.
DiscoverFinally(t) ==
    /\ t \in scan.threads
    /\ t[2] = "finally"
    /\ scan' = [scan EXCEPT
                  !.threads = @ \ {t},
                  !.open = @ \ {scan.sockets},
                  !.sockets = 0,
                  !.closed_newer = @ \/ scan.sockets > t[1]]
    /\ UNCHANGED scan_others

ScanNext ==
    \/ PressS
    \/ PressR
    \/ PressEscape
    \/ BackToMaster
    \/ \E th \in {"ui", "server"} :
          \/ start_server_close(th)
          \/ start_server_sockets(th)
          \/ start_server_flag(th)
          \/ start_server_thread(th)
          \/ start_server_state(th)
    \/ PressReturn
    \/ connect_to_slave_close
    \/ connect_to_slave_listen
    \/ ServerAccepts
    \/ ServerFails
    \/ ServerTimesOut
    \/ ServerRestarts
    \/ \E t \in scan.threads :
          \/ DiscoverIteration(t)
          \/ DiscoverFinally(t)

ScanSpec == ScanInit /\ [][ScanNext]_vars

\* ============================================================ properties
FlagCount(note) ==
    (IF note.played THEN 1 ELSE 0) + (IF note.missed THEN 1 ELSE 0)
      + (IF note.wrong THEN 1 ELSE 0)

Flags(note) == <<note.played, note.missed, note.wrong>>

InWindow(i) ==
    Abs(x_pos(song_data[i], current_time) - THRESHOLD_X) < threshold_distance

PastMissLine(i) ==
    x_pos(song_data[i], current_time) + note_width(song_data[i])
        < THRESHOLD_X - threshold_distance

\* C1: in every reachable state every note has at most one of the flags
\* played, missed, wrong set.
C1_AtMostOneOutcome == \A i \in Notes : FlagCount(song_data[i]) <= 1

C1_Witness ==
    /\ phase = "Live"
    /\ \E i, j \in Notes : song_data[i].played /\ song_data[j].wrong
    /\ \E i \in Notes : song_data[i].missed \/ InWindow(i)

\* C2: during Live a flag that is set stays set and the note's other two
\* flags stay clear, across every press, release, toggle, sweep and the
\* step that leaves Live.
C2_TerminalClassification ==
    [][phase = "Live" =>
         \A i \in Notes :
             FlagCount(song_data[i]) >= 1 =>
                 Flags(song_data'[i]) = Flags(song_data[i])]_vars

C2_Witness ==
    /\ phase = "Live"
    /\ \E i, j \in Notes :
          /\ song_data[i].played /\ PastMissLine(i)
          /\ song_data[j].wrong /\ PastMissLine(j)

\* C3 as stated: whenever the session is in Summary every note has exactly
\* one of played, missed, wrong set, on every path into Summary.
C3_SummaryAllClassified ==
    phase = "Summary" => \A i \in Notes : FlagCount(song_data[i]) = 1

\* C3 amended: whenever the session is in Summary and Live was not left by
\* ESC or QUIT, every note has exactly one of played, missed, wrong set.
C3_SummaryClassifiedUnlessCancelled ==
    (phase = "Summary" /\ ~cancelled) =>
        \A i \in Notes : FlagCount(song_data[i]) = 1

C3_Witness ==
    /\ phase = "Summary" /\ ~cancelled
    /\ \E i, j \in Notes : song_data[i].played /\ song_data[j].missed

NoActiveNote ==
    \A i \in Notes :
        \/ song_data[i].played \/ song_data[i].missed \/ song_data[i].wrong
        \/ ~InWindow(i)

\* C4: a press while no note is active adds exactly 1 to the wrong counter
\* and changes no note and none of score, correct hits, missed count,
\* beat-accuracy sum and beat-accuracy count.
C4_EmptyPressFrame ==
    [][\A k \in Keys :
          (KeyDown(k) /\ NoActiveNote) =>
              /\ wrong_notes' = wrong_notes + 1
              /\ song_data' = song_data
              /\ UNCHANGED <<score, correct_hits, missed_notes,
                             beat_accuracy_total, beat_accuracy_count>>]_vars

C4_Witness ==
    /\ phase = "Live"
    /\ wrong_notes = 1
    /\ \A i \in Notes : ~song_data[i].wrong
    /\ \E i \in Notes : song_data[i].played /\ InWindow(i)

HasCandidate == find_active_notes(song_data, current_time) # <<>>

\* The note a press at the current time is judged against.
Selected ==
    closest(candidates(song_data, current_time, override_instruments,
                       current_instrument))[1]

C7_ConsumedOnce ==
    [][\A k \in Keys :
          KeyDown(k) =>
              \A i \in Notes :
                  FlagCount(song_data[i]) >= 1 =>
                      /\ LET act == find_active_notes(song_data, current_time)
                         IN \A j \in 1..Len(act) : act[j][1] # i
                      /\ (HasCandidate => Selected # i)
                      /\ song_data'[i] = song_data[i]]_vars

C7_Witness ==
    /\ phase = "Live"
    /\ \E i \in Notes :
          /\ song_data[i].wrong /\ InWindow(i)
          /\ \E j \in Notes \ {i} :
                /\ song_data[j].played
                /\ song_data[j].Note = song_data[i].Note
                /\ \E k \in DOMAIN bound_at :
                      /\ key_to_note_map[k] = j
                      /\ bound_at[k] = current_time

\* C8: a release of a key bound by a correct press at t0, with no other
\* press of that key since, writes actual_duration = t1 - t0 and
\* beat_accuracy = 100 when t1 - t0 >= the note's duration, else
\* 100 * (t1 - t0) / duration; the value lies in [0, 100], is 0 for a hold
\* of 0 and 50 for a hold of half the duration.
C8_BeatAccuracy ==
    [][\A k \in Keys :
          (KeyUp(k) /\ k \in DOMAIN bound_at /\ k \notin repressed) =>
              LET n == key_to_note_map[k]
                  held == current_time - bound_at[k]
                  expected == song_data[n].Duration
                  acc == song_data'[n].beat_accuracy
              IN /\ song_data'[n].actual_duration = held
                 /\ held >= expected => acc = 100 * AccDen
                 /\ held < expected =>
                       acc * expected = 100 * AccDen * held
                 /\ acc >= 0 /\ acc <= 100 * AccDen
                 /\ held = 0 => acc = 0
                 /\ 2 * held = expected => acc = 50 * AccDen]_vars

C8_Witness ==
    /\ phase = "Live"
    /\ \E i, j \in Notes :
          /\ song_data[i].played
          /\ 2 * song_data[i].actual_duration = song_data[i].Duration
          /\ song_data[i].beat_accuracy = 50 * AccDen
          /\ song_data[j].played
          /\ song_data[j].actual_duration > song_data[j].Duration
          /\ song_data[j].beat_accuracy = 100 * AccDen
    /\ Len(measured) = 2

\* C9: a release of a key that has no open press session changes no note,
\* no counter, and neither the beat-accuracy sum nor its count.
C9_ReleaseWithoutSession ==
    [][\A k \in Keys :
          (KeyUp(k) /\ k \notin DOMAIN bound_at) =>
              /\ song_data' = song_data
              /\ UNCHANGED <<score, correct_hits, missed_notes, wrong_notes,
                             beat_accuracy_total, beat_accuracy_count>>]_vars

C9_Witness ==
    /\ phase = "Live"
    /\ wrong_notes = 1 /\ score = 0
    /\ \E i \in Notes : song_data[i].wrong
    /\ currently_playing = EmptyMap
    /\ measured = <<>>

RECURSIVE SumSeq(_)
SumSeq(s) == IF s = <<>> THEN 0 ELSE Head(s) + SumSeq(Tail(s))

\* C10: the mean beat accuracy equals the sum of the accuracies measured on
\* releases so far divided by their number, and is 0 when there is none.
C10_MeanBeatAccuracy ==
    LET mean == get_beat_accuracy
    IN /\ mean[2] > 0
       /\ IF measured = <<>>
          THEN mean[1] = 0
          ELSE mean[1] * Len(measured) = SumSeq(measured) * mean[2]

C10_Witness ==
    /\ Len(measured) = 2
    /\ measured[1] # measured[2]
    /\ beat_accuracy_count = 2

\* C11: the reported note accuracy, during Live and as the final figure at
\* Summary, equals correct / (correct + wrong + missed) * 100 whenever that
\* denominator is positive (the Summary figure is printed as a whole number).
C11_NoteAccuracyFigure ==
    LET total == correct_hits + wrong_notes + missed_notes
        live == note_accuracy_shown(correct_hits, missed_notes, wrong_notes)
    IN total > 0 =>
         /\ phase = "Live" => live[1] * total = correct_hits * 100 * live[2]
         /\ phase = "Summary" =>
               note_percentage(score, max_score)
                   = Trunc(correct_hits * 100, total)

\* The sweep of one loop iteration applied to (song, count) at time t.
SweepOnce(song, count, t) ==
    LET visible_notes == get_visible_notes(song, t)
    IN <<MissedSweep(song, visible_notes, t),
         update_missed_notes(song, visible_notes, t, count)>>

\* C12: the miss sweep is idempotent at a fixed timestamp: running it a
\* second time at the same time changes no note flag and does not change
\* the missed counter.
C12_SweepIdempotent ==
    phase = "Live" =>
        LET once == SweepOnce(song_data, missed_notes, current_time)
            twice == SweepOnce(once[1], once[2], current_time)
        IN twice = once

C12_Witness ==
    /\ phase = "Live"
    /\ \E i \in get_visible_notes(song_data, current_time) :
          MissCondition(song_data[i], current_time)
    /\ SweepOnce(song_data, missed_notes, current_time)[2] = missed_notes + 1

Unclassified == \A i \in Notes : FlagCount(song_data[i]) = 0

\* C19: before Live no note has played, missed or wrong set: in every state
\* of Instructions, of the preview and of the ready screen, and in the state
\* in which Live is entered, whether the preview ran to its end, was skipped
\* with SPACE, or the instrument was toggled on the ready screen.
C19_CleanBeforeLive ==
    /\ [](phase \in {"Instructions", "PreviewPlayback", "Ready"}
             => Unclassified)
    /\ [][(phase # "Live" /\ phase' = "Live") =>
             \A i \in Notes : FlagCount(song_data'[i]) = 0]_vars

C19_Witness ==
    /\ phase = "Live" /\ current_time = 0
    /\ Unclassified
    /\ wrong_notes = 0 /\ currently_playing = EmptyMap

Dist(i) == Abs(x_pos(song_data[i], current_time) - THRESHOLD_X)

\* C20 as stated: whenever at least one note is active at press time, the
\* note the press is judged against has a distance to the threshold that is
\* minimal among all active notes.
C20_NearestOfAllActive ==
    [][\A k \in Keys :
          (KeyDown(k) /\ HasCandidate) =>
              \A n \in Notes :
                  Flags(song_data'[n]) # Flags(song_data[n]) =>
                      \A j \in Notes :
                          IsActive(song_data[j], current_time) =>
                              Dist(n) <= Dist(j)]_vars

\* An active note the press may be judged against: with the instrument
\* override on and some active note of the current instrument, only the
\* active notes of that instrument; otherwise every active note.
Eligible(j) ==
    /\ IsActive(song_data[j], current_time)
    /\ (/\ override_instruments
        /\ \E m \in Notes :
              /\ IsActive(song_data[m], current_time)
              /\ song_data[m].Instrument = current_instrument)
         => song_data[j].Instrument = current_instrument

\* C20 amended: whenever at least one note is active at press time, the note
\* the press is judged against is eligible and has a distance to the
\* threshold that is minimal among the eligible notes.
C20_NearestOfEligible ==
    [][\A k \in Keys :
          (KeyDown(k) /\ HasCandidate) =>
              /\ \E n \in Notes : Flags(song_data'[n]) # Flags(song_data[n])
              /\ \A n \in Notes :
                    Flags(song_data'[n]) # Flags(song_data[n]) =>
                        /\ Eligible(n)
                        /\ \A j \in Notes :
                              Eligible(j) => Dist(n) <= Dist(j)]_vars

C20_Witness ==
    /\ phase = "Live"
    /\ \E k \in DOMAIN bound_at : \E j \in Notes :
          /\ bound_at[k] = current_time
          /\ song_data[key_to_note_map[k]].played
          /\ IsActive(song_data[j], current_time)
          /\ Dist(j) < Dist(key_to_note_map[k])

NoteSlots == UNION {DOMAIN t : t \in Tracks}

MissedSet == {i \in Notes : song_data[i].missed}

\* C13: a note that no press ever selects is eventually marked missed as the
\* session time advances past its window (from any state of Live, the note
\* gets played, wrong or missed unless the player leaves Live with ESC or
\* QUIT), and the missed counter rises by exactly 1 for each note marked
\* missed: it always equals the number of notes marked missed.
C13_EventuallyMissed ==
    /\ \A i \in NoteSlots :
          (phase = "Live" /\ ~song_data[i].played /\ ~song_data[i].wrong)
             ~> (\/ song_data[i].played \/ song_data[i].wrong
                 \/ song_data[i].missed
                 \/ cancelled)
    /\ [](missed_notes = Cardinality(MissedSet))
    /\ [][\A i \in Notes :
             (~song_data[i].missed /\ song_data'[i].missed)
                => /\ Frame \/ Cancel
                   /\ missed_notes' =
                        missed_notes
                          + Cardinality({j \in Notes :
                                ~song_data[j].missed /\ song_data'[j].missed})
                   /\ PastMissLine(i)]_vars

C13_Witness ==
    /\ phase = "Summary" /\ ~cancelled
    /\ missed_notes = 2
    /\ \A i \in Notes : song_data[i].missed
    /\ wrong_notes = 0

\* What the track format says the file's tokens stand for: the notes of the
\* well-formed tokens and the texts of the others, both in file order.
WellFormedAt(t) == TokenTable[t].well_formed

MalformedAt(t) == ~TokenTable[t].well_formed

ExpectedNotes(tokens) ==
    LET kept == SelectSeq(tokens, WellFormedAt)
    IN [i \in 1..Len(kept) |-> TokenTable[kept[i]].note]

ExpectedWarnings(tokens) ==
    LET skipped == SelectSeq(tokens, MalformedAt)
    IN [i \in 1..Len(skipped) |-> TokenTable[skipped[i]].text]

FileParsed ==
    /\ startup.program = "learn" /\ startup.pc = "loaded"
    /\ startup.file_exists

\* C14: for every input string the parse recovers from malformed tokens:
\* each malformed token is skipped with a warning, the parse never fails,
\* and the notes of all well-formed tokens are returned in input order.
C14_ParsingRecovers ==
    FileParsed =>
        /\ ~startup.raised /\ ~startup.is_none
        /\ startup.song_data = ExpectedNotes(startup.tokens)
        /\ startup.warnings = ExpectedWarnings(startup.tokens)

FourOrFiveFields(t) == TokenTable[t].fields \in {4, 5}

OtherFieldCount(t) == TokenTable[t].fields \notin {4, 5}

\* C15: a token with 4 hyphen-separated fields yields a note with the
\* default instrument 0, a token with 5 fields yields a note with the
\* instrument it names, and a token with any other field count is skipped
\* while the tokens before and after it are still parsed.
C15_FieldCounts ==
    FileParsed =>
        LET kept == SelectSeq(startup.tokens, FourOrFiveFields)
            skipped == SelectSeq(startup.tokens, OtherFieldCount)
        IN /\ ~startup.is_none
           /\ Len(startup.song_data) = Len(kept)
           /\ \A i \in 1..Len(kept) :
                 LET parts == split_on(TokenTable[kept[i]].text, "-")
                 IN IF Len(parts) = 4
                    THEN startup.song_data[i].Instrument = 0
                    ELSE format_int(startup.song_data[i].Instrument)
                            = parts[5]
           /\ startup.warnings =
                [i \in 1..Len(skipped) |-> TokenTable[skipped[i]].text]

\* C16: when the track file is missing at start-up the session still
\* starts, with the notes of the built-in default track.
C16_MissingFileFallsBack ==
    (~startup.file_exists /\ startup.pc \notin {"main", "loaded"}) =>
        /\ startup.pc \in {"running", "track_loaded"}
        /\ startup.song_data = parse_music_data(FALLBACK_TRACK).parsed_data

\* A file of well-formed tokens in start-time order, parsed.
WellFormedInOrder ==
    /\ FileParsed
    /\ startup.tokens # <<>>
    /\ \A i \in 1..Len(startup.tokens) : WellFormedAt(startup.tokens[i])
    /\ \A i \in 1..(Len(startup.tokens) - 1) :
          ~float_less(TokenTable[startup.tokens[i + 1]].note.Start,
                      TokenTable[startup.tokens[i]].note.Start)

\* Fields 1 to 4 of two tokens agree up to number formatting.
SameNoteFields(a, b) ==
    /\ nondigits_of(a[1]) = nondigits_of(b[1])
    /\ int_value(digits_of(a[1])) = int_value(digits_of(b[1]))
    /\ float_value(a[2]) = float_value(b[2])
    /\ float_value(a[3]) = float_value(b[3])
    /\ int_value(a[4]) = int_value(b[4])

\* C17 as stated: for a well-formed track string with its tokens in
\* start-time order, parsing it and writing the notes back sorted by start
\* yields the same tokens in the same order, up to number formatting of the
\* fields.
C17_RoundTripSameTokens ==
    WellFormedInOrder =>
        LET out == split_whitespace(save_composition(startup.song_data))
            inp == split_whitespace(startup.input_data)
        IN /\ Len(out) = Len(inp)
           /\ \A i \in 1..Len(inp) :
                 LET a == split_on(out[i], "-")
                     b == split_on(inp[i], "-")
                 IN /\ Len(a) = Len(b)
                    /\ SameNoteFields(a, b)
                    /\ Len(b) = 5 => int_value(a[5]) = int_value(b[5])

\* C17 amended: ... the same tokens in the same order, up to number
\* formatting of the fields and with the instrument field always written,
\* as 0 for a token that has none.
C17_RoundTripInstrumentWritten ==
    WellFormedInOrder =>
        LET out == split_whitespace(save_composition(startup.song_data))
            inp == split_whitespace(startup.input_data)
        IN /\ Len(out) = Len(inp)
           /\ \A i \in 1..Len(inp) :
                 LET a == split_on(out[i], "-")
                     b == split_on(inp[i], "-")
                 IN /\ Len(a) = 5
                    /\ SameNoteFields(a, b)
                    /\ int_value(a[5]) =
                          IF Len(b) = 5 THEN int_value(b[5]) ELSE 0

C17_Witness ==
    /\ WellFormedInOrder
    /\ \E i, j \in 1..Len(startup.tokens) :
          /\ i < j
          /\ startup.tokens[i] # startup.tokens[j]
          /\ startup.song_data[i].Start = startup.song_data[j].Start
    /\ \E i \in 1..Len(startup.tokens) :
          /\ TokenTable[startup.tokens[i]].fields = 4
          /\ startup.song_data[i].Start[2] > 0

\* C18: a track that yields zero notes never starts a play session: main
\* reports the failure and ends, the game object is never built on an empty
\* list, and no run is entered with an empty timeline.
C18_EmptyTrackNeverStarts ==
    /\ [](startup.pc = "running" => startup.song_data # <<>>)
    /\ [](startup.pc # "crashed")
    /\ [][(/\ startup.program = "learn" /\ startup.pc = "loaded"
           /\ ~startup.is_none /\ startup.song_data = <<>>)
             => startup'.pc = "failed"]_vars

C18_Witness ==
    /\ startup.pc = "failed"
    /\ startup.file_exists /\ ~startup.is_none
    /\ startup.song_data = <<>>
    /\ Len(startup.warnings) = 2

\* C21: when a mapped key is pressed again while its press session is still
\* open, the next release of that key never writes beat_accuracy or
\* actual_duration onto the note bound by the earlier press. (A second press
\* that is correct rebinds the key, so the release then writes onto the new
\* note; after a wrong or empty second press the key is still bound to the
\* note of the earlier press.)
C21_RepressClosesSession ==
    [][\A k \in Keys :
          (KeyUp(k) /\ k \in repressed) =>
              LET n == key_to_note_map[k]
              IN /\ song_data'[n].beat_accuracy = song_data[n].beat_accuracy
                 /\ song_data'[n].actual_duration
                       = song_data[n].actual_duration]_vars

\* The notes some key is bound to.
BoundNotes == {key_to_note_map[k] : k \in DOMAIN key_to_note_map}

\* The press session of note i is over: it is played and no key is bound
\* to it.
Settled(i) == song_data[i].played /\ i \notin BoundNotes

\* C22: the beat-accuracy write is the final mutation of a note: a release
\* that takes a measurement writes it onto the note its key is bound to and
\* ends that note's session; a note whose session is over is never written
\* again and never bound again, so it receives at most one measurement and
\* its beat_accuracy and actual_duration stay; the measurement count never
\* exceeds the number of played notes whose session is over.
C22_MeasuredOnceAndFinal ==
    /\ [](beat_accuracy_count + Cardinality(BoundNotes)
             <= Cardinality({i \in Notes : song_data[i].played}))
    /\ [][beat_accuracy_count' # beat_accuracy_count =>
             /\ beat_accuracy_count' = beat_accuracy_count + 1
             /\ \E k \in DOMAIN key_to_note_map :
                   /\ KeyUp(k)
                   /\ ~Settled(key_to_note_map[k])
                   /\ song_data'[key_to_note_map[k]].played
                   /\ key_to_note_map[k] \notin BoundNotes'
                   /\ \A i \in Notes \ {key_to_note_map[k]} :
                         song_data'[i] = song_data[i]]_vars
    /\ [][\A i \in Notes :
             Settled(i) => song_data'[i] = song_data[i] /\ Settled(i)']_vars

C22_Witness ==
    /\ phase = "Live"
    /\ beat_accuracy_count = 2
    /\ \A i \in Notes : Settled(i)
    /\ \E i \in Notes : song_data[i].beat_accuracy = 0
    /\ \E i \in Notes : song_data[i].beat_accuracy > 0
    /\ wrong_notes = 1

\* C23: in every reachable state each key-to-note binding refers to a note
\* whose played flag is true and its key has an open press; no note is
\* bound to two keys; a binding appears only by a correct press of its key,
\* and the release of a key removes the key's binding.
C23_SessionBindings ==
    /\ [](\A k \in DOMAIN key_to_note_map :
             /\ k \in Keys
             /\ key_to_note_map[k] \in Notes
             /\ song_data[key_to_note_map[k]].played
             /\ k \in DOMAIN currently_playing
             /\ \A m \in DOMAIN key_to_note_map :
                   key_to_note_map[m] = key_to_note_map[k] => m = k)
    /\ [][\A k \in Keys :
             /\ (/\ k \in DOMAIN key_to_note_map'
                 /\ \/ k \notin DOMAIN key_to_note_map
                    \/ key_to_note_map'[k] # key_to_note_map[k])
                  => /\ KeyDown(k)
                     /\ score' = score + 1
                     /\ ~song_data[key_to_note_map'[k]].played
                     /\ song_data[key_to_note_map'[k]].Note = KEY_MAPPINGS[k]
             /\ KeyUp(k) => k \notin DOMAIN key_to_note_map'
             /\ (k \in DOMAIN key_to_note_map
                   /\ k \notin DOMAIN key_to_note_map') => KeyUp(k)]_vars

C23_Witness ==
    /\ phase = "Live"
    /\ Cardinality(DOMAIN key_to_note_map) = 2
    /\ wrong_notes = 1
    /\ Cardinality(DOMAIN currently_playing) = 2


PhaseRank(p) ==
    CASE p = "Instructions" -> 1
      [] p = "PreviewPlayback" -> 2
      [] p = "Ready" -> 3
      [] p = "Live" -> 4
      [] p = "Summary" -> 5
      [] OTHER -> 6

\* Every note's end time lies more than the grace period before t.
PastGrace(t) ==
    \A i \in Notes :
        t > song_data[i].Start + song_data[i].Duration
              + GraceSeconds * TicksPerSecond

\* C24: the phases occur only in the order Instructions, preview (with its
\* ready screen), Live, Summary; the preview is entered only from
\* Instructions, Live only from the preview, Summary only from Live, and,
\* unless the loop was left by ESC or QUIT, only at a tick where every note
\* is classified and the session time exceeds every note's end time by more
\* than the grace period.
C24_PhaseOrder ==
    [][phase' # phase =>
          /\ PhaseRank(phase') > PhaseRank(phase)
          /\ phase' = "PreviewPlayback" => phase = "Instructions"
          /\ phase' = "Ready" => phase = "PreviewPlayback"
          /\ phase' = "Live" => phase \in {"PreviewPlayback", "Ready"}
          /\ phase' = "Summary" =>
                /\ phase = "Live"
                /\ \/ cancelled'
                   \/ /\ \A i \in Notes : FlagCount(song_data'[i]) >= 1
                      /\ PastGrace(current_time)
                      /\ current_time' = current_time]_vars

C24_Witness ==
    /\ phase = "Summary"
    /\ ~cancelled
    /\ PastGrace(current_time)
    /\ score = 1
    /\ missed_notes = 1

\* C25: counters and note flags agree: score = correct hits = number of
\* notes flagged played, the missed counter = number of notes flagged
\* missed, the wrong counter >= number of notes flagged wrong, and the score
\* never exceeds max_score, the number of notes.
C25_CountersMatchFlags ==
    /\ score = correct_hits
    /\ score = Cardinality({i \in Notes : song_data[i].played})
    /\ missed_notes = Cardinality({i \in Notes : song_data[i].missed})
    /\ wrong_notes >= Cardinality({i \in Notes : song_data[i].wrong})
    /\ score <= max_score
    /\ max_score = Cardinality(Notes)

C25_Witness ==
    /\ phase = "Live"
    /\ score = 1
    /\ missed_notes = 1
    /\ wrong_notes = 1
    /\ \A i \in Notes : ~song_data[i].wrong

\* C26: Live always ends when loop iterations keep occurring: from every
\* Live state the loop is eventually left, and an iteration whose time
\* exceeds the last note's end time by more than the grace period leaves
\* every note classified after its sweep and ends the loop in that
\* iteration, whatever keys were pressed before.
C26_LiveTerminates ==
    /\ (phase = "Live") ~> (phase # "Live")
    /\ [][(Frame /\ PastGrace(current_time)) =>
             /\ \A i \in Notes : FlagCount(song_data'[i]) >= 1
             /\ phase' = "Summary"]_vars
    /\ [](phase = "Live" => ~PastGrace(current_time - MaxDt))

C26_Witness ==
    /\ phase = "Summary"
    /\ ~cancelled
    /\ PastGrace(current_time)
    /\ ~PastGrace(current_time - 1)
    /\ wrong_notes = 1
    /\ missed_notes = 1
    /\ \E i \in Notes : song_data[i].wrong

\* The notes after a press of key k at time t, judged on song.
judged(song, k, t) ==
    LET active_notes == candidates(song, t, override_instruments,
                                   current_instrument)
    IN IF active_notes = <<>> THEN song
       ELSE LET n == closest(active_notes)[1]
            IN IF song[n].Note = KEY_MAPPINGS[k]
               THEN mark_played(song, n)
               ELSE mark_wrong(song, n)

\* C27: at one timestamp the active window and the miss condition are
\* disjoint: no note that find_active_notes returns at time t satisfies the
\* miss condition at t; hence judging a press and then sweeping gives the
\* same notes, the same judged note and the same missed count as sweeping
\* and then judging the press.
C27_WindowAndMissDisjoint ==
    /\ [](\A i \in Notes :
             ~(/\ IsActive(song_data[i], current_time)
               /\ MissCondition(song_data[i], current_time)))
    /\ [](phase = "Live" =>
             LET t == current_time
                 swept == SweepOnce(song_data, missed_notes, t)
             IN /\ candidates(swept[1], t, override_instruments,
                              current_instrument)
                     = candidates(song_data, t, override_instruments,
                                  current_instrument)
                /\ \A k \in Keys :
                      SweepOnce(judged(song_data, k, t), missed_notes, t)
                         = <<judged(swept[1], k, t), swept[2]>>)
    /\ [][\A k \in Keys :
             KeyDown(k) => song_data' = judged(song_data, k, current_time)]_vars

C27_Witness ==
    /\ phase = "Live"
    /\ \E i, j \in Notes :
          /\ IsActive(song_data[i], current_time)
          /\ MissCondition(song_data[j], current_time)


\* C28: in LAN playing mode at most one playback loop thread runs at a
\* time on an instance, and playback is started at most once per playing
\* session (one call of prepare_for_playback), for every order in which
\* master and slave enter playing mode and every interleaving of the UI
\* thread with the message thread.
C28_OnePlaybackLoop ==
    \A i \in Inst :
        /\ LiveLoops(i) <= 1
        /\ link.started[i] <= 1


\* Instance i is past both completion tests: its playback loop has set
\* local_completed and finished the test that follows, the message thread
\* has set remote_completed and finished the test that follows, and the UI
\* thread is not in the middle of resetting the flags for a session.
BothTestsDone(i) ==
    /\ link.local_completed[i]
    /\ link.remote_completed[i]
    /\ link.loops[i]["send_complete"] = 0
    /\ link.loops[i]["test_remote"] = 0
    /\ link.loops[i]["mark"] = 0
    /\ link.msg[i] \notin {"complete_test", "complete_mark"}
    /\ link.ui[i] \notin {"local_completed", "remote_completed"}

\* C29: when an instance's own playback loop has finished (local_completed
\* set, remote_completed tested) and the peer's playback-complete message
\* has been handled (remote_completed set, local_completed tested),
\* playback_completed is true, whichever of the two threads came first.
C29_CompletionHandshake ==
    \A i \in Inst : BothTestsDone(i) => link.playback_completed[i]

C29_Witness ==
    /\ \A i \in Inst : BothTestsDone(i) /\ link.playback_completed[i]
    /\ \A i \in Inst : LiveLoops(i) = 0 /\ link.started[i] = 1
    /\ link.timers["master"] = 1
    /\ link.timers["slave"] = 0


\* C30: at most one slave-discovery thread runs at any time on the master:
\* after a refresh (R), after ESC back to master mode and a new scan, and
\* after a connection time-out that restarts scanning, the previous
\* discovery thread has ended before the new one is started, and no
\* discovery thread closes the sockets opened for a later scan.
C30_OneDiscoveryThread ==
    /\ Cardinality(scan.threads) <= 1
    /\ ~scan.closed_newer

====
